---- MODULE Spec2Model ----
(***************************************************************************)
(* Model of mailtools_vrb.EasySSLSendmail: the credential merge            *)
(* (make_credentials_dict), construction, and send_mail_message with its   *)
(* minpause throttle, message construction and exception handler.          *)
(*                                                                         *)
(* Python objects live in a heap (a sequence of dicts, the address of an   *)
(* object is its index), so that aliasing between the caller's mapping and *)
(* the returned credentials is visible.  Values are tagged records, which  *)
(* keeps isinstance() checks and "key in dict" tests as the code has them. *)
(***************************************************************************)
EXTENDS Integers, Sequences, FiniteSets, TLC

VARIABLES
    heap,               \* Python heap: sequence of dicts, address = index
    src,                \* the json_mail_info argument of the merge call
    kwargs,             \* keyword arguments of the last merge call
    before,             \* heap at the moment make_credentials_dict was entered
    mres,               \* outcome of the last make_credentials_dict call
    client,             \* "none" before __init__, "constructed" after
    _credentials,       \* self._credentials: heap address of the merged dict
    _last_mail_utc_ts,  \* self._last_mail_utc_ts
    sock,               \* self.sock of the SMTP session: "open" or "closed"
    now,                \* int(datetime.timestamp(datetime.now(timezone.utc)))
    ncalls,             \* number of send_mail_message calls made so far
    prev,               \* record of the send_mail_message call before the last
    last,               \* record of the last send_mail_message call
    lastAttempt         \* time of the most recent call that passed the throttle

vars == <<heap, src, kwargs, before, mres, client, _credentials,
          _last_mail_utc_ts, sock, now, ncalls, prev, last, lastAttempt>>

mergeVars == <<heap, src, kwargs, before, mres>>
clientVars == <<client, _credentials, _last_mail_utc_ts, sock, now, ncalls,
                prev, last, lastAttempt>>

(***************************************************************************)
(* Bounds of the model.                                                    *)
(***************************************************************************)
\* clock reading when the client makes its first call (2026-11-04, epoch seconds)
StartTime == 1793800000
\* the clock is observed until StartTime + MaxElapsed
MaxElapsed == 70
\* number of send_mail_message calls on one client
MaxCalls == 2
\* a minpause longer than the time since the epoch
HugePause == 2000000000

\* seconds that may pass between two steps
Delays == {10, 70}

(***************************************************************************)
(* Values.  None (Python) and null (JSON) are the same object.             *)
(***************************************************************************)
Null == [kind |-> "null", s |-> "", n |-> 0]
StrV(s) == [kind |-> "str", s |-> s, n |-> 0]
IntV(n) == [kind |-> "int", s |-> "", n |-> n]
\* a nested dict, held by reference
Ref(a) == [kind |-> "ref", s |-> "", n |-> a]

SSMTP_PORT_DEFAULT == 465

CredKeys == {"host", "port", "user", "password", "sender", "minpause"}

EmptyDict == [k \in {} |-> Null]
Has(d, k) == k \in DOMAIN d
Put(d, k, v) == [x \in (DOMAIN d) \cup {k} |-> IF x = k THEN v ELSE d[x]]

\* heap[a][k] = v
Store(h, a, k, v) == [h EXCEPT ![a] = Put(h[a], k, v)]

(***************************************************************************)
(* JSON text.  A document is the sequence of the members of an object;     *)
(* a member is a key and a token; numbers are written as decimal digits.   *)
(***************************************************************************)
RECURSIVE Digits(_)
Digits(n) == IF n < 10 THEN <<n>> ELSE Append(Digits(n \div 10), n % 10)

RECURSIVE Number(_)
Number(ds) == IF Len(ds) = 0 THEN 0
              ELSE 10 * Number(SubSeq(ds, 1, Len(ds) - 1)) + ds[Len(ds)]

Token(t, text, ds, neg, ms) ==
    [t |-> t, text |-> text, digits |-> ds, neg |-> neg, members |-> ms]

RECURSIVE KeySeq(_)
KeySeq(S) == IF S = {} THEN <<>>
             ELSE LET k == CHOOSE x \in S : TRUE IN <<k>> \o KeySeq(S \ {k})

RECURSIVE DumpsValue(_, _)
RECURSIVE DumpsObject(_, _, _)
\* json.dumps of the object at address a
Dumps(h, a) == DumpsObject(h, h[a], KeySeq(DOMAIN h[a]))

DumpsObject(h, d, ks) ==
    IF ks = <<>> THEN <<>>
    ELSE <<[key |-> Head(ks), tok |-> DumpsValue(h, d[Head(ks)])]>>
         \o DumpsObject(h, d, Tail(ks))

DumpsValue(h, v) ==
    CASE v.kind = "str" -> Token("string", v.s, <<>>, FALSE, <<>>)
      [] v.kind = "int" ->
            Token("number", "", Digits(IF v.n < 0 THEN -v.n ELSE v.n), v.n < 0, <<>>)
      [] v.kind = "null" -> Token("null", "", <<>>, FALSE, <<>>)
      [] v.kind = "ref" -> Token("object", "", <<>>, FALSE, Dumps(h, v.n))

\* json.loads: every object of the document is a new object on the heap
RECURSIVE Loads(_, _)
RECURSIVE LoadsMembers(_, _, _)
Loads(h, text) == LoadsMembers(h, text, EmptyDict)

LoadsMembers(h, ms, d) ==
    IF ms = <<>> THEN [heap |-> Append(h, d), ref |-> Len(h) + 1]
    ELSE LET m == Head(ms)
             tok == m.tok
         IN CASE tok.t = "string" ->
                    LoadsMembers(h, Tail(ms), Put(d, m.key, StrV(tok.text)))
              [] tok.t = "number" ->
                    LoadsMembers(h, Tail(ms),
                        Put(d, m.key, IntV(IF tok.neg THEN -Number(tok.digits)
                                                     ELSE Number(tok.digits))))
              [] tok.t = "null" ->
                    LoadsMembers(h, Tail(ms), Put(d, m.key, Null))
              [] tok.t = "object" ->
                    LET r == Loads(h, tok.members)
                    IN LoadsMembers(r.heap, Tail(ms), Put(d, m.key, Ref(r.ref)))

(***************************************************************************)
(* make_credentials_dict                                                   *)
(***************************************************************************)
Raised == [status |-> "raised", heap |-> <<>>, ref |-> 0]
Returned(h, a) == [status |-> "returned", heap |-> h, ref |-> a]

\* credentials = json_mail_info: the working dict is the caller's own object
AliasSource(h, s) ==
    CASE s.kind = "dict" -> Returned(h, s.ref)
      [] s.kind = "file" ->
            IF s.exists THEN LET r == Loads(h, s.text) IN Returned(r.heap, r.ref)
            ELSE Raised
      [] s.kind = "none" -> Returned(Append(h, EmptyDict), Len(h) + 1)

\* the working dict: a JSON round trip of the mapping, the parsed file, or {}
CopySource(h, s) ==
    CASE s.kind = "dict" ->
            LET r == Loads(h, Dumps(h, s.ref)) IN Returned(r.heap, r.ref)
      [] s.kind = "file" ->
            IF s.exists THEN LET r == Loads(h, s.text) IN Returned(r.heap, r.ref)
            ELSE Raised
      [] s.kind = "none" -> Returned(Append(h, EmptyDict), Len(h) + 1)

\* credentials.setdefault(k, v): an argument that does not override
KeepArg(d, k, v) == IF v # Null /\ ~Has(d, k) THEN Put(d, k, v) ELSE d

\* if <arg> is not None: credentials["<arg>"] = <arg>
SetArg(d, k, v) == IF v # Null THEN Put(d, k, v) ELSE d

ApplyKeywords(d, kw) ==
    LET d1 == SetArg(d, "host", kw["host"])
        d2 == SetArg(d1, "port", kw["port"])
        d3 == SetArg(d2, "user", kw["user"])
        d4 == SetArg(d3, "password", kw["password"])
        d5 == SetArg(d4, "sender", kw["sender"])
    IN SetArg(d5, "minpause", kw["minpause"])

\* sender always taken from user
ForceSender(d) == IF Has(d, "user") THEN Put(d, "sender", d["user"]) ELSE d

DefaultSender(d) ==
    IF Has(d, "user") /\ ~Has(d, "sender") THEN Put(d, "sender", d["user"]) ELSE d

\* port left out when not provided
NoDefaultPort(d) == d

DefaultPort(d) ==
    IF ~Has(d, "port") THEN Put(d, "port", IntV(SSMTP_PORT_DEFAULT)) ELSE d

make_credentials_dict(h, s, kw) ==
    LET c == CopySource(h, s)
    IN IF c.status = "raised" THEN [status |-> "raised", heap |-> h, ref |-> 0]
       ELSE Returned(
              [c.heap EXCEPT ![c.ref] = DefaultPort(DefaultSender(ApplyKeywords(@, kw)))],
              c.ref)

(***************************************************************************)
(* Inputs of the merge.                                                    *)
(***************************************************************************)
Absent == [kind |-> "absent", s |-> "", n |-> 0]

SourceValues(k) ==
    CASE k = "host" -> {Absent, StrV("mail.x.com")}
      [] k = "port" -> {Absent, IntV(587), Null}
      [] k = "user" -> {Absent, StrV("a@x.com")}
      [] k = "password" -> {Absent, StrV("secret")}
      [] k = "sender" -> {Absent, StrV("s@x.com"), Null}
      [] k = "minpause" -> {Absent, IntV(60)}

KeywordValues(k) ==
    CASE k = "host" -> {Null, StrV("smtp.y.org")}
      [] k = "port" -> {Null, IntV(2465)}
      [] k = "user" -> {Null, StrV("u@y.org")}
      [] k = "password" -> {Null, StrV("hidden")}
      [] k = "sender" -> {Null, StrV("k@y.org")}
      [] k = "minpause" -> {Null, IntV(30)}

Keywords == [host : KeywordValues("host"), port : KeywordValues("port"),
             user : KeywordValues("user"), password : KeywordValues("password"),
             sender : KeywordValues("sender"), minpause : KeywordValues("minpause")]
NoKeywords == [k \in CredKeys |-> Null]

\* a dict with the chosen members, the absent ones left out
DictOf(f) == [k \in {x \in DOMAIN f : f[x] # Absent} |-> f[k]]

Choices == [host : SourceValues("host"), port : SourceValues("port"),
            user : SourceValues("user"), password : SourceValues("password"),
            sender : SourceValues("sender"), minpause : SourceValues("minpause")]

\* the caller's heap: the mapping is the last object; with "extra" it holds
\* a nested dict by reference
Nested == [k \in {"tag"} |-> StrV("x")]
PlainHeaps == {<<DictOf(f)>> : f \in Choices}
NestedHeaps == {<<Nested, Put(DictOf(f), "extra", Ref(1))>> : f \in Choices}

\* the json_mail_info argument; content is the mapping it denotes
NoSource == [kind |-> "none", ref |-> 0, exists |-> FALSE, text |-> <<>>,
             content |-> EmptyDict]
DictSource(h) == [kind |-> "dict", ref |-> Len(h), exists |-> FALSE, text |-> <<>>,
                  content |-> h[Len(h)]]
FileSource(h, ex) == [kind |-> "file", ref |-> 0, exists |-> ex,
                      text |-> Dumps(h, Len(h)), content |-> h[Len(h)]]

Idle == [status |-> "idle", ref |-> 0, value |-> EmptyDict]

(***************************************************************************)
(* The merge on its own: one call of the classmethod, then the caller      *)
(* goes on to change the dict it got back.                                 *)
(***************************************************************************)
NoMsg == [type |-> "none", Subject |-> "", From |-> Null, To |-> "",
          body |-> Null, parts |-> <<>>]
NoExc == [type |-> "none", raisedBy |-> "none"]
NoCall == [outcome |-> "none", time |-> 0, minpause |-> Null, sender |-> Null,
           senderArg |-> Null, text |-> Null, html |-> Null, result |-> "none",
           wire |-> NoMsg, failure |-> NoExc, raisedExc |-> NoExc,
           logged |-> FALSE, quitCalled |-> FALSE]
NoPrev == [outcome |-> "none", time |-> 0]

ClientIdle ==
    /\ client = "none"
    /\ _credentials = 0
    /\ _last_mail_utc_ts = 0
    /\ sock = "closed"
    /\ now = StartTime
    /\ ncalls = 0
    /\ prev = NoPrev
    /\ last = NoCall
    /\ lastAttempt = 0

InitMerge ==
    /\ \/ \E h \in PlainHeaps \cup NestedHeaps : src = DictSource(h) /\ heap = h
       \/ \E h \in PlainHeaps : src = FileSource(h, TRUE) /\ heap = <<>>
       \/ src = FileSource(<<EmptyDict>>, FALSE) /\ heap = <<>>
       \/ src = NoSource /\ heap = <<>>
    /\ kwargs = NoKeywords
    /\ before = heap
    /\ mres = Idle
    /\ ClientIdle

\* EasySSLSendmail.make_credentials_dict(json_mail_info=src, **kw)
Merge ==
    /\ mres.status = "idle"
    /\ \E kw \in Keywords :
          LET r == make_credentials_dict(heap, src, kw)
          IN /\ kwargs' = kw
             /\ before' = heap
             /\ heap' = r.heap
             /\ mres' = [status |-> r.status, ref |-> r.ref,
                          value |-> IF r.status = "returned" THEN r.heap[r.ref]
                                    ELSE EmptyDict]
    /\ UNCHANGED <<src, clientVars>>

\* objects reachable from the returned dict
Reachable(h, a) == {a} \cup {h[a][k].n : k \in {x \in DOMAIN h[a] : h[a][x].kind = "ref"}}

\* the caller changes the dict that was returned, or a dict nested in it
MutateResult ==
    /\ mres.status = "returned"
    /\ client = "none"
    /\ \E a \in Reachable(heap, mres.ref) :
          heap' = Store(heap, a, IF a = mres.ref THEN "host" ELSE "tag", StrV("changed"))
    /\ UNCHANGED <<src, kwargs, before, mres, clientVars>>

NextMerge == Merge \/ MutateResult

SpecMerge == InitMerge /\ [][NextMerge]_vars

(***************************************************************************)
(* send_mail_message                                                       *)
(***************************************************************************)
MailSubject == "Test Message"
MailTo == "me@mydomain.com"
UnknownSender == StrV("(unknown sender)")

\* if minpause is None: take credentials["minpause"] when present
ResolveMinpause(cred, arg) ==
    IF arg = Null THEN (IF Has(cred, "minpause") THEN cred["minpause"] ELSE Null)
    ELSE arg

\* if sender is None: take credentials["sender"], else the placeholder
ResolveSender(cred, arg) ==
    IF arg = Null THEN (IF Has(cred, "sender") THEN cred["sender"] ELSE UnknownSender)
    ELSE arg

\* isinstance(minpause, int) and timediff < minpause
Suppressed(minpause, t, ts) == minpause.kind = "int" /\ t - ts < minpause.n

Part(ctype, content) == [ctype |-> ctype, content |-> content]

\* EmailMessage with set_content(mail_text); a text that is no str is refused
\* by the content manager
BuildText(sender, text) ==
    IF text.kind # "str" THEN [ok |-> FALSE, msg |-> NoMsg,
                               exc |-> [type |-> "KeyError", raisedBy |-> "build"]]
    ELSE [ok |-> TRUE, exc |-> NoExc,
          msg |-> [type |-> "text/plain", Subject |-> MailSubject, From |-> sender,
                   To |-> MailTo, body |-> text, parts |-> <<>>]]

\* the parts attached in the other order
BuildMultipartHtmlFirst(sender, text, html) ==
    IF text.kind # "str" THEN [ok |-> FALSE, msg |-> NoMsg,
                               exc |-> [type |-> "AttributeError", raisedBy |-> "build"]]
    ELSE [ok |-> TRUE, exc |-> NoExc,
          msg |-> [type |-> "multipart/alternative", Subject |-> MailSubject,
                   From |-> sender, To |-> MailTo, body |-> Null,
                   parts |-> <<Part("text/html", html), Part("text/plain", text)>>]]

\* MIMEMultipart("alternative") with MIMEText(mail_text, "plain") attached
\* first and MIMEText(mail_html, "html") second
BuildMultipart(sender, text, html) ==
    IF text.kind # "str" THEN [ok |-> FALSE, msg |-> NoMsg,
                               exc |-> [type |-> "AttributeError", raisedBy |-> "build"]]
    ELSE [ok |-> TRUE, exc |-> NoExc,
          msg |-> [type |-> "multipart/alternative", Subject |-> MailSubject,
                   From |-> sender, To |-> MailTo, body |-> Null,
                   parts |-> <<Part("text/plain", text), Part("text/html", html)>>]]

BuildMessage(sender, text, html) ==
    IF html.kind # "str" THEN BuildText(sender, text)
    ELSE BuildMultipart(sender, text, html)

\* super().send_message(msg): on a closed session it raises; on an open one
\* the server accepts, refuses (session stays open) or the connection drops
\* (smtplib closes the socket before it raises)
SendMessage(sk, env) ==
    CASE sk = "closed" ->
            [ok |-> FALSE, sock |-> "closed",
             exc |-> [type |-> "SMTPServerDisconnected", raisedBy |-> "send"]]
      [] sk = "open" /\ env = "ok" -> [ok |-> TRUE, sock |-> "open", exc |-> NoExc]
      [] sk = "open" /\ env = "refused" ->
            [ok |-> FALSE, sock |-> "open",
             exc |-> [type |-> "SMTPRecipientsRefused", raisedBy |-> "send"]]
      [] sk = "open" /\ env = "dropped" ->
            [ok |-> FALSE, sock |-> "closed",
             exc |-> [type |-> "SMTPServerDisconnected", raisedBy |-> "send"]]

\* self.quit(): docmd("quit") raises on a closed session and when the
\* connection drops; the socket is closed on every path
Quit(sk, env) ==
    IF sk = "open" /\ env = "ok" THEN [ok |-> TRUE, sock |-> "closed", exc |-> NoExc]
    ELSE [ok |-> FALSE, sock |-> "closed",
          exc |-> [type |-> "SMTPServerDisconnected", raisedBy |-> "quit"]]

\* the handler without self.quit()
HandleExceptionNoQuit(sk, exc, quitEnv) ==
    [sock |-> sk, raisedExc |-> exc, logged |-> TRUE, quitCalled |-> FALSE]

\* except BaseException as exc: self.quit(); logger.error(...); raise
\* an exception raised by quit() leaves the handler at once
HandleException(sk, exc, quitEnv) ==
    LET q == Quit(sk, quitEnv)
    IN IF q.ok THEN [sock |-> q.sock, raisedExc |-> exc, logged |-> TRUE,
                     quitCalled |-> TRUE]
       ELSE [sock |-> q.sock, raisedExc |-> q.exc, logged |-> FALSE,
             quitCalled |-> TRUE]

Call(outcome, t, a, mp, sd, result, wire, failure, h) ==
    [outcome |-> outcome, time |-> t, minpause |-> mp, sender |-> sd,
     senderArg |-> a.sender, text |-> a.text, html |-> a.html,
     result |-> result, wire |-> wire, failure |-> failure,
     raisedExc |-> h.raisedExc, logged |-> h.logged, quitCalled |-> h.quitCalled]

NoHandler == [sock |-> "none", raisedExc |-> NoExc, logged |-> FALSE,
              quitCalled |-> FALSE]

\* the whole of send_mail_message: the call record, the session afterwards
\* and self._last_mail_utc_ts afterwards (the method never assigns it)
send_mail_message(cred, ts, t, sk, a, sendEnv, quitEnv) ==
    LET mp == ResolveMinpause(cred, a.minpause)
        sd == ResolveSender(cred, a.sender)
    IN IF Suppressed(mp, t, ts)
       THEN [call |-> Call("suppressed", t, a, mp, sd, "{}", NoMsg, NoExc, NoHandler),
             sock |-> sk, ts |-> ts]
       ELSE LET b == BuildMessage(sd, a.text, a.html)
                s == SendMessage(sk, sendEnv)
            IN IF ~b.ok
               THEN LET h == HandleException(sk, b.exc, quitEnv)
                    IN [call |-> Call("raised", t, a, mp, sd, "none", NoMsg, b.exc, h),
                        sock |-> h.sock, ts |-> ts]
               ELSE IF ~s.ok
               THEN LET h == HandleException(s.sock, s.exc, quitEnv)
                    IN [call |-> Call("raised", t, a, mp, sd, "none", b.msg, s.exc, h),
                        sock |-> h.sock, ts |-> ts]
               ELSE [call |-> Call("returned", t, a, mp, sd, "{}", b.msg, NoExc, NoHandler),
                     sock |-> s.sock, ts |-> ts]

(***************************************************************************)
(* One client: __init__, then send_mail_message calls while time passes.   *)
(***************************************************************************)
ClientHeaps ==
    { <<EmptyDict>>,
      <<[user |-> StrV("a@x.com"),
         sender |-> StrV("s@x.com"), minpause |-> IntV(60)]>> }

ClientKeywords ==
    [host : {Null, StrV("smtp.y.org")}, port : {Null}, user : {Null},
     password : {Null}, sender : {Null},
     minpause : {Null, IntV(HugePause), StrV("60")}]

SendArgs ==
    [text : {StrV("plain words"), Null},
     html : {Null, StrV("<p>words</p>"), IntV(1)},
     sender : {Null, StrV("from@z.net")},
     minpause : {Null, IntV(60)}]

\* what the network does during the transmission and during the QUIT that
\* follows a failure; it has a say only where the call reaches it: not on a
\* closed session, not in the transmission when no message could be built,
\* not in the QUIT after the connection dropped
Network(sk, a) ==
    IF sk = "closed" THEN {[send |-> "dropped", quit |-> "dropped"]}
    ELSE IF a.text.kind # "str"
    THEN {[send |-> "ok", quit |-> "ok"], [send |-> "ok", quit |-> "dropped"]}
    ELSE {[send |-> "ok", quit |-> "ok"],
          [send |-> "refused", quit |-> "ok"], [send |-> "refused", quit |-> "dropped"],
          [send |-> "dropped", quit |-> "dropped"]}

Init ==
    /\ \/ \E h \in ClientHeaps : src = DictSource(h) /\ heap = h
       \/ src = FileSource(<<EmptyDict>>, FALSE) /\ heap = <<>>
    /\ kwargs = NoKeywords
    /\ before = heap
    /\ mres = Idle
    /\ ClientIdle

\* EasySSLSendmail(json_mail_info=src, **kw): merge the credentials, set the
\* timestamp to 0, then connect to credentials["host"]
Construct ==
    /\ client = "none"
    /\ \E kw \in ClientKeywords, connected \in BOOLEAN :
          LET r == make_credentials_dict(heap, src, kw)
          IN /\ kwargs' = kw
             /\ before' = heap
             /\ heap' = r.heap
             /\ mres' = [status |-> r.status, ref |-> r.ref,
                         value |-> IF r.status = "returned" THEN r.heap[r.ref]
                                   ELSE EmptyDict]
             /\ IF r.status = "raised" THEN
                    /\ client' = "failed"
                    /\ UNCHANGED <<_credentials, sock>>
                ELSE
                    /\ _credentials' = r.ref
                    /\ IF Has(r.heap[r.ref], "host") /\ connected
                       THEN client' = "constructed" /\ sock' = "open"
                       ELSE client' = "failed" /\ sock' = "closed"
    /\ _last_mail_utc_ts' = 0
    /\ UNCHANGED <<src, now, ncalls, prev, last, lastAttempt>>

SendMailMessage ==
    /\ client = "constructed"
    /\ ncalls < MaxCalls
    /\ \E a \in SendArgs : \E env \in Network(sock, a) :
          LET r == send_mail_message(heap[_credentials], _last_mail_utc_ts, now,
                                     sock, a, env.send, env.quit)
          IN /\ last' = r.call
             /\ sock' = r.sock
             /\ _last_mail_utc_ts' = r.ts
             /\ lastAttempt' = IF r.call.outcome = "suppressed" THEN lastAttempt
                               ELSE now
    /\ prev' = [outcome |-> last.outcome, time |-> last.time]
    /\ ncalls' = ncalls + 1
    /\ UNCHANGED <<mergeVars, client, _credentials, now>>

\* time passes between two calls (StartTime is the time of the first call)
Tick ==
    /\ client = "constructed"
    /\ ncalls >= 1
    /\ \E d \in Delays :
          /\ now + d <= StartTime + MaxElapsed
          /\ now' = now + d
    /\ UNCHANGED <<mergeVars, client, _credentials, _last_mail_utc_ts, sock,
                   ncalls, prev, last, lastAttempt>>

Next == Construct \/ SendMailMessage \/ Tick

Spec == Init /\ [][Next]_vars

(***************************************************************************)
(* Properties of the merge (checked under SpecMerge).                      *)
(***************************************************************************)
\* a key is supplied when the keyword is not None or the source holds the key
Supplied(k) == kwargs[k] # Null \/ Has(src.content, k)

\* C3: every keyword argument that is not None is the value of its key in the
\* result, whatever the source held for that key, and a key whose keyword is
\* None keeps the value the source (mapping or file) held for it.
C3_KeywordsOverride ==
    mres.status = "returned" =>
        \A k \in CredKeys :
            /\ kwargs[k] # Null => Has(mres.value, k) /\ mres.value[k] = kwargs[k]
            /\ (kwargs[k] = Null /\ Has(src.content, k)) =>
                    Has(mres.value, k) /\ mres.value[k] = src.content[k]

C3_Witness ==
    /\ mres.status = "returned"
    /\ src.kind = "file"
    /\ Has(src.content, "host") /\ kwargs["host"] = StrV("smtp.y.org")
    /\ Has(src.content, "port") /\ src.content["port"] = IntV(587)
    /\ kwargs["port"] = Null
    /\ mres.value["port"] = IntV(587)
    /\ mres.value["host"] = StrV("smtp.y.org")

\* C4: when no sender is supplied and a user is present after merging, the
\* result's sender equals its user; a supplied sender is the result's sender
\* and is never replaced by user; {"user": "a@x.com"} merges to exactly
\* {"user": "a@x.com", "sender": "a@x.com", "port": 465}.
C4_SenderFromUser ==
    mres.status = "returned" =>
        /\ (~Supplied("sender") /\ Has(mres.value, "user")) =>
                Has(mres.value, "sender") /\ mres.value["sender"] = mres.value["user"]
        /\ Supplied("sender") =>
                mres.value["sender"] = IF kwargs["sender"] # Null THEN kwargs["sender"]
                                       ELSE src.content["sender"]
        /\ (src.content = [k \in {"user"} |-> StrV("a@x.com")] /\ kwargs = NoKeywords) =>
                mres.value = [user |-> StrV("a@x.com"), sender |-> StrV("a@x.com"),
                              port |-> IntV(465)]

C4_Witness ==
    /\ mres.status = "returned"
    /\ src.kind = "dict"
    /\ src.content = [k \in {"user"} |-> StrV("a@x.com")]
    /\ kwargs = NoKeywords
    /\ mres.value["sender"] = StrV("a@x.com")

C6_CallerUntouched ==
    (src.kind = "dict" /\ mres.status = "returned") =>
        /\ Len(heap) >= Len(before)
        /\ \A a \in 1..Len(before) : heap[a] = before[a]

C6_Witness ==
    /\ src.kind = "dict" /\ mres.status = "returned"
    /\ Has(src.content, "extra") /\ Has(src.content, "user")
    /\ ~Supplied("sender") /\ ~Supplied("port")
    /\ kwargs["host"] # Null /\ Has(src.content, "host")
    /\ heap[mres.ref]["host"] = StrV("changed")
    /\ heap[heap[mres.ref]["extra"].n]["tag"] = StrV("changed")
    /\ heap[src.ref] = src.content

(***************************************************************************)
(* Properties of one client (checked under Spec).                          *)
(***************************************************************************)
Attempted(c) == c.outcome \in {"returned", "raised"}

\* C1: with an effective minpause of 60, a call made 10 seconds after a send
\* that went out is suppressed: it returns {} and hands no message to the
\* session; a call made 70 seconds after it is attempted.
C1_ThrottleBetweenSends ==
    (ncalls >= 2 /\ prev.outcome = "returned" /\ last.minpause = IntV(60)) =>
        /\ last.time - prev.time = 10 =>
                last.outcome = "suppressed" /\ last.result = "{}" /\ last.wire = NoMsg
        /\ last.time - prev.time = 70 => Attempted(last)

\* C2: _last_mail_utc_ts is the time of the most recent call that passed the
\* throttle check (0 when there has been none), whether or not the
\* transmission succeeded.
C2_TimestampFollowsAttempts ==
    client = "constructed" => _last_mail_utc_ts = lastAttempt

\* C7: when send_mail_message raises, quit() has been called on the session
\* and the session is closed by the time the caller sees the error.
C7_ClosedBeforeRaise ==
    last.outcome = "raised" => last.quitCalled /\ sock = "closed"

C7_Witness ==
    /\ last.outcome = "raised"
    /\ last.failure = [type |-> "SMTPRecipientsRefused", raisedBy |-> "send"]
    /\ last.raisedExc = last.failure
    /\ last.quitCalled
    /\ sock = "closed"

\* C8: when construction or transmission fails, the error is logged and the
\* same failure is what the caller sees, also when quit() itself fails.
C8_LoggedAndReraised ==
    last.outcome = "raised" => last.logged /\ last.raisedExc = last.failure

\* C9: the message handed to the session by a call that is not suppressed is,
\* when mail_html is no str, a single-part text/plain message with body
\* mail_text, and when mail_html is a str, a multipart/alternative message of
\* exactly two parts, text/plain (mail_text) first and text/html (mail_html)
\* second; Subject, From and To are the subject, the resolved sender and the
\* recipient.  A call that is not suppressed and has a str mail_text hands
\* over a message.
C9_MessageShape ==
    LET cred == heap[_credentials]
        sender == IF last.senderArg # Null THEN last.senderArg
                  ELSE IF Has(cred, "sender") THEN cred["sender"]
                  ELSE StrV("(unknown sender)")
        m == last.wire
    IN /\ (Attempted(last) /\ last.text.kind = "str") => m # NoMsg
       /\ last.outcome = "suppressed" => m = NoMsg
       /\ m # NoMsg =>
            /\ m.Subject = MailSubject /\ m.From = sender /\ m.To = MailTo
            /\ IF last.html.kind # "str"
               THEN m.type = "text/plain" /\ m.parts = <<>> /\ m.body = last.text
               ELSE /\ m.type = "multipart/alternative"
                    /\ Len(m.parts) = 2
                    /\ m.parts[1] = [ctype |-> "text/plain", content |-> last.text]
                    /\ m.parts[2] = [ctype |-> "text/html", content |-> last.html]

C9_Witness ==
    /\ last.outcome = "returned"
    /\ last.html = StrV("<p>words</p>")
    /\ last.senderArg = Null
    /\ last.wire.From = StrV("s@x.com")
    /\ Len(last.wire.parts) = 2
    /\ prev.outcome = "returned"

\* C10: the first call on a new client is never suppressed, whatever the
\* effective minpause and the time of the call.
C10_FirstCallNotSuppressed ==
    ncalls = 1 => last.outcome # "suppressed"

====
